---- MODULE Spec2Model ----
(***************************************************************************)
(* Model of permute/irr.py: the concordance statistic compute_ts and the   *)
(* permutation simulator simulate_ts_dist.                                 *)
(*                                                                         *)
(* A rating matrix is a sequence of R rows, each a sequence of N values in *)
(* {0,1}.  numpy arrays are objects: the model keeps them in a heap and    *)
(* the program's names (ratings, r) hold references into it.               *)
(*                                                                         *)
(* compute_ts returns the float counts.sum()/(Ns*R*(R-1)).  Both operands  *)
(* are small integers, so the IEEE quotient is the correctly rounded       *)
(* rational; the model carries it as the pair [num, den] and compares two  *)
(* such values by cross multiplication (FloatGeq, FloatEq), which agrees   *)
(* with the float comparison for all operands below 2^26.                  *)
(***************************************************************************)
EXTENDS Integers, Sequences, FiniteSets

VARIABLES pc, heap, r, obs_ts, iter, keep_dist, i, dist, geq, out, input,
          rho, reordered, rho2

vars == <<pc, heap, r, obs_ts, iter, keep_dist, i, dist, geq, out, input,
          rho, reordered, rho2>>

(* ---------------------------- bounds ----------------------------------- *)
MaxR == 4
MaxN == 3
MaxCells == 12
SimMaxR == 3
SimMaxN == 3
SimMaxCells == 6
MaxIter == 2

(* Python's None is the empty option <<>>; a present value v is <<v>>.     *)
(* A local that is not bound yet holds a placeholder that is never read.   *)
None == <<>>

Some(v) == <<v>>

NoRef == "unbound"

NoFloat == [num |-> 0, den |-> 1]

NoBundle == [obs_ts |-> NoFloat, geq |-> 0, iter |-> 0, dist |-> None]

(* ---------------------------- helpers ---------------------------------- *)
RECURSIVE SumSeq(_)
SumSeq(s) ==
  IF Len(s) = 0 THEN 0 ELSE s[1] + SumSeq(Tail(s))

Perms(n) ==
  {p \in [1..n -> 1..n] : \A a, b \in 1..n : p[a] = p[b] => a = b}

Matrices(R, N) ==
  [1..R -> [1..N -> {0, 1}]]

Shapes(maxR, maxN, maxCells) ==
  {s \in (2..maxR) \X (1..maxN) : s[1] * s[2] <= maxCells}

RatingMatrices(maxR, maxN, maxCells) ==
  UNION {Matrices(s[1], s[2]) : s \in Shapes(maxR, maxN, maxCells)}

(* ratings.shape *)
Shape(m) ==
  <<Len(m), Len(m[1])>>

(* ------------------------- compute_ts ---------------------------------- *)
(* a plausible slip: the sum runs along the rows (axis 1) *)
SumAxis1(m) ==
  [k \in 1..Len(m) |-> SumSeq(m[k])]

(* a plausible slip: the last rater is left out of the column sums *)
SumAxis0DropLast(m) ==
  [c \in 1..Len(m[1]) |-> SumSeq([k \in 1..(Len(m) - 1) |-> m[k][c]])]

(* y = ratings.sum(0): the column sums *)
SumAxis0(m) ==
  [c \in 1..Len(m[1]) |-> SumSeq([k \in 1..Len(m) |-> m[k][c]])]

(* a plausible slip: (R-y-1) written as (R-y+1) *)
CountsSignSlip(R, y) ==
  [c \in 1..Len(y) |-> y[c] * (y[c] - 1) + (R - y[c]) * (R - y[c] + 1)]

(* counts = y*(y-1)+(R-y)*(R-y-1), elementwise *)
Counts(R, y) ==
  [c \in 1..Len(y) |-> y[c] * (y[c] - 1) + (R - y[c]) * (R - y[c] - 1)]

(* a plausible slip: the numerator over ordered pairs is divided by the     *)
(* docstring's first denominator, Ns * (R choose 2)                        *)
compute_ts_choose2(m) ==
  LET R  == Shape(m)[1]
      Ns == Shape(m)[2]
      y  == SumAxis0(m)
      counts == Counts(R, y)
  IN  [num |-> SumSeq(counts), den |-> Ns * ((R * (R - 1)) \div 2)]

(* rho_s = counts.sum()/(Ns*R*(R-1)) *)
compute_ts(m) ==
  LET R  == Shape(m)[1]
      Ns == Shape(m)[2]
      y  == SumAxis0(m)
      counts == Counts(R, y)
  IN  [num |-> SumSeq(counts), den |-> Ns * R * (R - 1)]

(* float comparisons of two quotients with positive denominators *)
FloatGeq(a, b) ==
  a.num * b.den >= b.num * a.den

FloatEq(a, b) ==
  a.num * b.den = b.num * a.den

(* a supplied reference statistic: 0.0, 0.5 and 2.0 *)
ObsArgs ==
  {[num |-> 0, den |-> 1], [num |-> 1, den |-> 2], [num |-> 2, den |-> 1]}

IterArgs ==
  (0 - MaxIter)..MaxIter

(* ---------------------- numpy object operations ------------------------ *)
(* a plausible slip: r = ratings, an alias instead of a copy *)
ndarray_alias(h, src) ==
  [heap |-> h, ref |-> src]

(* ratings.copy(): a new array with the same contents *)
ndarray_copy(h, src) ==
  [heap |-> [h EXCEPT !["work"] = h[src]], ref |-> "work"]

(* a plausible slip: the row is resampled instead of rearranged *)
shuffle_resample(row) ==
  [1..Len(row) -> {0, 1}]

(* np.random.shuffle(row): the outcomes of an in-place shuffle of one row *)
shuffle(row) ==
  {[j \in 1..Len(row) |-> row[p[j]]] : p \in Perms(Len(row))}

(* for row in r: np.random.shuffle(row) -- every row, each independently *)
ShuffleRows(m) ==
  {m2 \in [1..Len(m) -> UNION {shuffle(m[k]) : k \in 1..Len(m)}] :
     \A k \in 1..Len(m) : m2[k] \in shuffle(m[k])}

(* np.zeros(iter) *)
Zeros(n) ==
  [j \in 1..n |-> [num |-> 0, den |-> 1]]

(* np.sum(dist >= obs_ts) *)
CountGeq(d, ref) ==
  Cardinality({j \in 1..Len(d) : FloatGeq(d[j], ref)})

(* ====================== simulate_ts_dist =============================== *)
Init ==
  /\ pc = "start"
  /\ obs_ts \in {None} \cup {Some(f) : f \in ObsArgs}
  /\ \E m \in RatingMatrices(SimMaxR, SimMaxN, SimMaxCells) :
       /\ heap = [caller |-> m, work |-> None]
       /\ input = [ratings |-> m, obs_ts |-> obs_ts]
  /\ r = NoRef
  /\ iter \in IterArgs
  /\ keep_dist \in BOOLEAN
  /\ i = 0
  /\ dist = None
  /\ geq = 0
  /\ out = NoBundle
  /\ rho = NoFloat
  /\ reordered = None
  /\ rho2 = NoFloat

(* r = ratings.copy() *)
CopyRatings ==
  /\ pc = "start"
  /\ LET c == ndarray_copy(heap, "caller")
     IN  /\ heap' = c.heap
         /\ r' = c.ref
  /\ pc' = "obs"
  /\ UNCHANGED <<obs_ts, iter, keep_dist, i, dist, geq, out, input,
                 rho, reordered, rho2>>

(* if obs_ts is None: obs_ts = compute_ts(r) *)
ObsTs ==
  /\ pc = "obs"
  /\ obs_ts' = IF obs_ts = None THEN Some(compute_ts(heap[r])) ELSE obs_ts
  /\ pc' = "branch"
  /\ UNCHANGED <<heap, r, iter, keep_dist, i, dist, geq, out, input,
                 rho, reordered, rho2>>

(* if keep_dist: dist = np.zeros(iter) *)
AllocDist ==
  /\ pc = "branch"
  /\ keep_dist
  /\ iter >= 0
  /\ dist' = Some(Zeros(iter))
  /\ i' = 0
  /\ pc' = "keep_loop"
  /\ UNCHANGED <<heap, r, obs_ts, iter, keep_dist, geq, out, input,
                 rho, reordered, rho2>>

(* np.zeros of a negative length raises ValueError, which propagates *)
AllocDistRaises ==
  /\ pc = "branch"
  /\ keep_dist
  /\ iter < 0
  /\ pc' = "raised"
  /\ UNCHANGED <<heap, r, obs_ts, iter, keep_dist, i, dist, geq, out, input,
                 rho, reordered, rho2>>

(* else: dist = None; geq = 0 *)
InitCount ==
  /\ pc = "branch"
  /\ ~keep_dist
  /\ dist' = None
  /\ geq' = 0
  /\ i' = 0
  /\ pc' = "count_loop"
  /\ UNCHANGED <<heap, r, obs_ts, iter, keep_dist, out, input,
                 rho, reordered, rho2>>

(* one pass of the keep_dist loop: shuffle every row, dist[i] = compute_ts(r) *)
KeepIter ==
  /\ pc = "keep_loop"
  /\ i < iter
  /\ \E m2 \in ShuffleRows(heap[r]) :
       /\ heap' = [heap EXCEPT ![r] = m2]
       /\ dist' = Some([dist[1] EXCEPT ![i + 1] = compute_ts(m2)])
  /\ i' = i + 1
  /\ UNCHANGED <<pc, r, obs_ts, iter, keep_dist, geq, out, input,
                 rho, reordered, rho2>>

(* geq = np.sum(dist >= obs_ts), once range(iter) is exhausted *)
KeepTally ==
  /\ pc = "keep_loop"
  /\ ~(i < iter)
  /\ geq' = CountGeq(dist[1], obs_ts[1])
  /\ pc' = "return"
  /\ UNCHANGED <<heap, r, obs_ts, iter, keep_dist, i, dist, out, input,
                 rho, reordered, rho2>>

(* one pass of the count-only loop: shuffle, geq += (compute_ts(r) >= obs_ts) *)
CountIter ==
  /\ pc = "count_loop"
  /\ i < iter
  /\ \E m2 \in ShuffleRows(heap[r]) :
       /\ heap' = [heap EXCEPT ![r] = m2]
       /\ geq' = geq + (IF FloatGeq(compute_ts(m2), obs_ts[1]) THEN 1 ELSE 0)
  /\ i' = i + 1
  /\ UNCHANGED <<pc, r, obs_ts, iter, keep_dist, dist, out, input,
                 rho, reordered, rho2>>

(* range(iter) is exhausted (at once when iter <= 0) *)
CountExit ==
  /\ pc = "count_loop"
  /\ ~(i < iter)
  /\ pc' = "return"
  /\ UNCHANGED <<heap, r, obs_ts, iter, keep_dist, i, dist, geq, out, input,
                 rho, reordered, rho2>>

(* return {"obs_ts": obs_ts, "geq": geq, "iter": iter, "dist": dist} *)
Return ==
  /\ pc = "return"
  /\ out' = [obs_ts |-> obs_ts[1], geq |-> geq, iter |-> iter, dist |-> dist]
  /\ pc' = "returned"
  /\ UNCHANGED <<heap, r, obs_ts, iter, keep_dist, i, dist, geq, input,
                 rho, reordered, rho2>>

Next ==
  \/ CopyRatings
  \/ ObsTs
  \/ AllocDist
  \/ AllocDistRaises
  \/ InitCount
  \/ KeepIter
  \/ KeepTally
  \/ CountIter
  \/ CountExit
  \/ Return

Spec == Init /\ [][Next]_vars

(* ====================== compute_ts called on its own =================== *)
Idle ==
  /\ r = NoRef
  /\ obs_ts = None
  /\ iter = 0
  /\ keep_dist = FALSE
  /\ i = 0
  /\ dist = None
  /\ geq = 0
  /\ out = NoBundle

InitTs ==
  /\ pc = "ts_call"
  /\ \E m \in RatingMatrices(MaxR, MaxN, MaxCells) :
       /\ heap = [caller |-> m, work |-> None]
       /\ input = [ratings |-> m, obs_ts |-> None]
  /\ Idle
  /\ rho = NoFloat
  /\ reordered = None
  /\ rho2 = NoFloat

(* rho = compute_ts(ratings) *)
CallComputeTs ==
  /\ pc = "ts_call"
  /\ rho' = compute_ts(heap["caller"])
  /\ pc' = "ts_done"
  /\ UNCHANGED <<heap, r, obs_ts, iter, keep_dist, i, dist, geq, out, input,
                 reordered, rho2>>

NextTs ==
  \/ CallComputeTs

SpecTs == InitTs /\ [][NextTs]_vars

(* ============ compute_ts on a matrix and on its reorderings ============ *)
(* ratings[p, :] -- the rows taken in the order p *)
TakeRows(m, p) ==
  [k \in 1..Len(m) |-> m[p[k]]]

(* ratings[:, q] -- the columns taken in the order q *)
TakeCols(m, q) ==
  [k \in 1..Len(m) |-> [c \in 1..Len(m[1]) |-> m[k][q[c]]]]

InitPerm ==
  /\ pc = "perm_call"
  /\ \E m \in RatingMatrices(MaxR, MaxN, MaxCells) :
       /\ heap = [caller |-> m, work |-> None]
       /\ input = [ratings |-> m, obs_ts |-> None]
  /\ Idle
  /\ rho = NoFloat
  /\ reordered = None
  /\ rho2 = NoFloat

(* rho = compute_ts(ratings) *)
ComputeOriginal ==
  /\ pc = "perm_call"
  /\ rho' = compute_ts(heap["caller"])
  /\ pc' = "perm_rows"
  /\ UNCHANGED <<heap, r, obs_ts, iter, keep_dist, i, dist, geq, out, input,
                 reordered, rho2>>

(* rho2 = compute_ts(ratings[p, :]) *)
ReorderRows ==
  /\ pc = "perm_rows"
  /\ \E p \in Perms(Len(heap["caller"])) :
       LET m2 == TakeRows(heap["caller"], p)
       IN  /\ reordered' = Some(m2)
           /\ rho2' = compute_ts(m2)
  /\ pc' = "perm_cols"
  /\ UNCHANGED <<heap, r, obs_ts, iter, keep_dist, i, dist, geq, out, input,
                 rho>>

(* rho2 = compute_ts(m[:, q]), m the row-reordered matrix *)
ReorderCols ==
  /\ pc = "perm_cols"
  /\ \E q \in Perms(Len(heap["caller"][1])) :
       LET m2 == TakeCols(reordered[1], q)
       IN  /\ reordered' = Some(m2)
           /\ rho2' = compute_ts(m2)
  /\ pc' = "perm_done"
  /\ UNCHANGED <<heap, r, obs_ts, iter, keep_dist, i, dist, geq, out, input,
                 rho>>

NextPerm ==
  \/ ComputeOriginal
  \/ ReorderRows
  \/ ReorderCols

SpecPerm == InitPerm /\ [][NextPerm]_vars

(* ============================ properties ============================== *)
RatersOf(m) == 1..Len(m)

ItemsOf(m) == 1..Len(m[1])

OnesIn(row) ==
  Cardinality({j \in 1..Len(row) : row[j] = 1})

OnesInColumn(m, c) ==
  Cardinality({k \in RatersOf(m) : m[k][c] = 1})

Unanimous(m) ==
  \A c \in ItemsOf(m) : \A k, v \in RatersOf(m) : m[k][c] = m[v][c]

AllOnes(m) ==
  \A k \in RatersOf(m) : \A c \in ItemsOf(m) : m[k][c] = 1

MaxSplit(m) ==
  /\ Len(m) % 2 = 0
  /\ \A c \in ItemsOf(m) : 2 * OnesInColumn(m, c) = Len(m)

AgreeingTriples(m) ==
  {t \in ItemsOf(m) \X RatersOf(m) \X RatersOf(m) :
     t[2] # t[3] /\ m[t[2]][t[1]] = m[t[3]][t[1]]}

DistinctRaterTriples(m) ==
  {t \in ItemsOf(m) \X RatersOf(m) \X RatersOf(m) : t[2] # t[3]}

Example ==
  <<<<1, 1, 0>>, <<1, 0, 0>>, <<0, 1, 0>>>>

One == [num |-> 1, den |-> 1]

(* C1: for every 0/1 matrix with R >= 2 and N >= 1 the value compute_ts    *)
(* returns lies in [0, 1]: its numerator is between 0 and N*R*(R-1).       *)
C1_RhoInUnitInterval ==
  pc = "ts_done" =>
    /\ rho.den = Len(input.ratings[1]) * Len(input.ratings) * (Len(input.ratings) - 1)
    /\ 0 <= rho.num
    /\ rho.num <= rho.den
    /\ FloatGeq(rho, [num |-> 0, den |-> 1])
    /\ FloatGeq(One, rho)

C1_Witness ==
  /\ pc = "ts_done"
  /\ 0 < rho.num
  /\ rho.num < rho.den
  /\ Len(input.ratings) = 3

(* C2: compute_ts returns exactly 1 when every column is unanimous, and a  *)
(* value strictly below 1 when at least one column is not.                 *)
C2_OneIffUnanimous ==
  pc = "ts_done" =>
    /\ Unanimous(input.ratings) => rho.num = rho.den
    /\ ~Unanimous(input.ratings) => rho.num < rho.den

C2_Witness ==
  /\ pc = "ts_done"
  /\ Unanimous(input.ratings)
  /\ \E c, d \in ItemsOf(input.ratings) :
       input.ratings[1][c] = 1 /\ input.ratings[1][d] = 0
  /\ rho.num = rho.den

(* C3: the numerator of compute_ts is the number of triples (item, rater,  *)
(* other rater) whose two ratings of the item agree, the denominator the   *)
(* number of all such triples; for the example matrix they are 10 and 18.  *)
C3_NumeratorCountsAgreeingPairs ==
  pc = "ts_done" =>
    /\ rho.num = Cardinality(AgreeingTriples(input.ratings))
    /\ rho.den = Cardinality(DistinctRaterTriples(input.ratings))
    /\ input.ratings = Example => rho.num = 10 /\ rho.den = 18

C3_Witness ==
  /\ pc = "ts_done"
  /\ input.ratings = Example
  /\ rho = [num |-> 10, den |-> 18]

(* C4: compute_ts of a matrix whose rows, and then whose columns, were     *)
(* reordered by any permutations equals compute_ts of the matrix.          *)
C4_ReorderInvariant ==
  pc \in {"perm_cols", "perm_done"} => rho2 = rho

C4_Witness ==
  /\ pc = "perm_done"
  /\ reordered[1] # input.ratings
  /\ \E k \in RatersOf(input.ratings) : reordered[1][k] # input.ratings[k]
  /\ ~Unanimous(input.ratings)
  /\ rho2 = rho

(* C5: simulate_ts_dist never changes the caller's matrix: at every step   *)
(* of the call, and after it, the caller's array holds the input values.   *)
C5_InputNeverMutated ==
  heap["caller"] = input.ratings

C5_Witness ==
  /\ pc = "returned"
  /\ i >= 2
  /\ heap["work"] # input.ratings
  /\ heap["caller"] = input.ratings

(* C6: the geq count of a returned bundle satisfies 0 <= geq <= iter, and  *)
(* with iter = 0 it is 0 and a retained distribution is empty.             *)
C6_GeqWithinIter ==
  pc = "returned" =>
    /\ 0 <= out.geq
    /\ out.geq <= out.iter
    /\ out.iter = 0 => out.geq = 0 /\ (keep_dist => out.dist = Some(<<>>))

(* C7: for an all-ones matrix and no supplied reference statistic the      *)
(* returned bundle has obs_ts = 1 and geq = iter.                          *)
C7_AllOnesGeqIsIter ==
  (pc = "returned" /\ AllOnes(input.ratings) /\ input.obs_ts = None) =>
    /\ FloatEq(out.obs_ts, One)
    /\ out.geq = out.iter

(* C8 as stated: on a maximally split matrix (R even, every column half    *)
(* ones) compute_ts is 0.                                                  *)
C8_SplitIsZero ==
  (pc = "ts_done" /\ MaxSplit(input.ratings)) => rho.num = 0

(* C8 amended: for R even no R-by-N matrix has a numerator below           *)
(* N*R*(R-2)/2, a maximally split matrix has exactly that numerator, so    *)
(* the minimum is (R-2)/(2(R-1)); it is 0 when R = 2.                      *)
C8_SplitIsMinimum ==
  (pc = "ts_done" /\ Len(input.ratings) % 2 = 0) =>
    LET R == Len(input.ratings)
        N == Len(input.ratings[1])
    IN  /\ 2 * rho.num >= N * R * (R - 2)
        /\ MaxSplit(input.ratings) => 2 * rho.num = N * R * (R - 2)
        /\ (MaxSplit(input.ratings) /\ R = 2) => rho.num = 0

C8_Witness ==
  /\ pc = "ts_done"
  /\ MaxSplit(input.ratings)
  /\ Len(input.ratings) = 4
  /\ rho.num > 0

(* C9: a call with a negative iteration count returns no bundle.           *)
C9_NegativeIterNoBundle ==
  iter < 0 => pc # "returned"

(* C10: after any number of iterations the working copy has the shape of   *)
(* the input and each of its rows holds as many ones as the same row of    *)
(* the input, all values still 0 or 1.                                     *)
C10_RowsAreRearrangements ==
  r # NoRef =>
    /\ Shape(heap[r]) = Shape(input.ratings)
    /\ \A k \in RatersOf(input.ratings) :
         /\ Len(heap[r][k]) = Len(input.ratings[k])
         /\ OnesIn(heap[r][k]) = OnesIn(input.ratings[k])
         /\ \A c \in 1..Len(heap[r][k]) : heap[r][k][c] \in {0, 1}

C10_Witness ==
  /\ pc = "keep_loop"
  /\ i >= 2
  /\ heap[r] # input.ratings
  /\ \E k, v \in RatersOf(input.ratings) :
       OnesIn(input.ratings[k]) # OnesIn(input.ratings[v])

====
